---- MODULE Spec2Model ----
(***************************************************************************)
(* Model of knapsack.pyx: the Python-facing knapsack() translation layer   *)
(* and the Cython _knapsack() bottom-up 0/1 knapsack solver.               *)
(*                                                                         *)
(* Numbers are integers.  Values pass through a C float buffer             *)
(* (array.array('f', ...)), modelled by rounding to a 24-bit significand;  *)
(* the table holds C doubles, whose additions are exact for every sum the  *)
(* model forms (all below 2^31).  Weights and the capacity pass through C  *)
(* int, which is the identity on the integers of the model (array('i')     *)
(* raises OverflowError outside the C int range, it never wraps).          *)
(*                                                                         *)
(* Sequences are 1-based here: weights[i - 1] of the code is w[p][i].      *)
(* The table is 0-based as in the code.                                    *)
(***************************************************************************)
EXTENDS Integers, Sequences, FiniteSets, TLC

VARIABLES values, weights, max_weight, v, w, rows, cols, dp_array, i, j,
          pc, result, error

vars == <<values, weights, max_weight, v, w, rows, cols, dp_array, i, j,
          pc, result, error>>

(***************************************************************************)
(* Bounds of the model.                                                    *)
(***************************************************************************)
MaxItems == 2
MaxWeight == 2
MaxCapacity == 2

\* The callers of the model: one call in Spec, two interleaved in SpecPar.
Procs == {1, 2}

(***************************************************************************)
(* Numeric conversions of the translation layer.                           *)
(***************************************************************************)
\* Significand width of a C float (typecode 'f').
FloatMantissa == 24

RECURSIVE Pow2(_)
Pow2(n) == IF n = 0 THEN 1 ELSE 2 * Pow2(n - 1)

Abs(x) == IF x < 0 THEN -x ELSE x

\* Spacing of the C floats around the magnitude a.
RECURSIVE Ulp(_, _)
Ulp(a, u) == IF a \div u < Pow2(FloatMantissa) THEN u ELSE Ulp(a, 2 * u)

\* Round the magnitude a to a multiple of u, ties to the even multiple.
RoundHalfEven(a, u) ==
    LET q == a \div u
        r == a % u
    IN  IF 2 * r > u \/ (2 * r = u /\ q % 2 = 1) THEN (q + 1) * u ELSE q * u

\* array.array('f', values): each value narrowed to the nearest C float.
ToFloat32(x) ==
    LET a == Abs(x)
        m == RoundHalfEven(a, Ulp(a, 1))
    IN  IF x < 0 THEN -m ELSE m

\* The smallest positive integer a C float cannot hold.
BigVal == Pow2(FloatMantissa) + 1

(***************************************************************************)
(* Inputs a caller can pass.                                               *)
(***************************************************************************)
ValueSet == {-1, 1, 2, BigVal}
WeightSet == -1 .. MaxWeight
CapacitySet == -2 .. MaxCapacity

SeqsUpTo(S, n) == UNION {[1 .. k -> S] : k \in 0 .. n}

\* The preconditions the specification states for a call.
ValidInput(vals, wts, cap) ==
    /\ Len(vals) = Len(wts)
    /\ \A k \in 1 .. Len(wts) : wts[k] >= 0
    /\ cap >= 0

(***************************************************************************)
(* _knapsack: the table and its accesses.                                  *)
(***************************************************************************)
\* dp_array is a local of _knapsack: each invocation has its own.
FrameShared(p) == 1
Frame(p) == p

\* np.zeros((rows, cols)): a fresh table of zeros.
OnesTable(r, c) == [a \in 0 .. r - 1 |-> [b \in 0 .. c - 1 |-> 1]]
ZeroTable(r, c) == [a \in 0 .. r - 1 |-> [b \in 0 .. c - 1 |-> 0]]

\* t[a][b] through Python indexing with a, b >= 0: IndexError when outside.
InTable(t, a, b) == a \in DOMAIN t /\ b \in DOMAIN t[a]

\* max(x, y) of two numbers.
MinOf(x, y) == IF y < x THEN y ELSE x
MaxOf(x, y) == IF y > x THEN y ELSE x

\* range(1, cols): the first column the inner loop visits.
FirstColZero == 1 - 1
FirstCol == 1

\* The test `j - weight >= 0` of line 22.
Fits(col, weight) == col - weight >= 0

\* Line 24 and line 26: the value stored in table[row][col].
TakeAlways(t, row, col, weight, value) ==
    IF Fits(col, weight)
    THEN value + t[row - 1][col - weight]
    ELSE t[row - 1][col]
CellValue(t, row, col, weight, value) ==
    IF Fits(col, weight)
    THEN MaxOf(t[row - 1][col], value + t[row - 1][col - weight])
    ELSE t[row - 1][col]

\* The reads of one loop body succeed: values[i - 1] is inside the float
\* buffer and every table index is inside the table.
BodyReadsOk(t, vbuf, row, col, weight) ==
    /\ InTable(t, row, col)
    /\ InTable(t, row - 1, col)
    /\ Fits(col, weight) =>
         /\ row <= Len(vbuf)
         /\ InTable(t, row - 1, col - weight)

(***************************************************************************)
(* Initial states: the caller has chosen its arguments.                    *)
(***************************************************************************)
Idle == [p \in Procs |-> 0]
NoSeq == [p \in Procs |-> <<>>]
NoTable == [p \in Procs |-> ZeroTable(0, 0)]

Init ==
    /\ \E vals \in SeqsUpTo(ValueSet, MaxItems),
          wts \in SeqsUpTo(WeightSet, MaxItems),
          cap \in CapacitySet :
         /\ values = [p \in Procs |-> IF p = 1 THEN vals ELSE <<>>]
         /\ weights = [p \in Procs |-> IF p = 1 THEN wts ELSE <<>>]
         /\ max_weight = [p \in Procs |-> IF p = 1 THEN cap ELSE 0]
    /\ v = NoSeq /\ w = NoSeq
    /\ rows = Idle /\ cols = Idle /\ i = Idle /\ j = Idle
    /\ dp_array = NoTable
    /\ pc = [p \in Procs |-> IF p = 1 THEN "call" ELSE "idle"]
    /\ result = Idle
    /\ error = [p \in Procs |-> "none"]

(***************************************************************************)
(* knapsack(), lines 41-43: marshal the arguments and enter _knapsack.     *)
(***************************************************************************)
Marshal(p) ==
    /\ pc[p] = "call"
    /\ v' = [v EXCEPT ![p] = [k \in 1 .. Len(values[p]) |-> ToFloat32(values[p][k])]]
    /\ w' = [w EXCEPT ![p] = weights[p]]
    /\ pc' = [pc EXCEPT ![p] = "alloc"]
    /\ UNCHANGED <<values, weights, max_weight, rows, cols, dp_array, i, j,
                   result, error>>

(***************************************************************************)
(* _knapsack, lines 8-11: sizes and the zeroed table.  np.zeros raises     *)
(* ValueError for a negative dimension.                                    *)
(***************************************************************************)
Alloc(p) ==
    /\ pc[p] = "alloc"
    /\ LET r == Len(w[p]) + 1
           c == max_weight[p] + 1
       IN  /\ rows' = [rows EXCEPT ![p] = r]
           /\ cols' = [cols EXCEPT ![p] = c]
           /\ IF c < 0
              THEN /\ pc' = [pc EXCEPT ![p] = "raised"]
                   /\ error' = [error EXCEPT ![p] = "ValueError in np.zeros"]
                   /\ UNCHANGED <<dp_array, i, j>>
              ELSE /\ dp_array' = [dp_array EXCEPT ![Frame(p)] = ZeroTable(r, c)]
                   /\ IF 1 < r /\ FirstCol < c
                      THEN /\ pc' = [pc EXCEPT ![p] = "loop"]
                           /\ i' = [i EXCEPT ![p] = 1]
                           /\ j' = [j EXCEPT ![p] = FirstCol]
                      ELSE /\ pc' = [pc EXCEPT ![p] = "return"]
                           /\ UNCHANGED <<i, j>>
                   /\ UNCHANGED error
    /\ UNCHANGED <<values, weights, max_weight, v, w, result>>

(***************************************************************************)
(* _knapsack, lines 18-26: one execution of the inner loop body at (i, j), *)
(* then the advance of the two range() loops.                              *)
(***************************************************************************)
LoopBody(p) ==
    /\ pc[p] = "loop"
    /\ LET t == dp_array[Frame(p)]
           weight == w[p][i[p]]
       IN  IF BodyReadsOk(t, v[p], i[p], j[p], weight)
           THEN /\ dp_array' = [dp_array EXCEPT ![Frame(p)][i[p]][j[p]] =
                        CellValue(t, i[p], j[p], weight,
                                  IF Fits(j[p], weight) THEN v[p][i[p]] ELSE 0)]
                /\ IF j[p] + 1 < cols[p]
                   THEN /\ j' = [j EXCEPT ![p] = j[p] + 1]
                        /\ UNCHANGED <<i, pc>>
                   ELSE IF i[p] + 1 < rows[p]
                        THEN /\ i' = [i EXCEPT ![p] = i[p] + 1]
                             /\ j' = [j EXCEPT ![p] = FirstCol]
                             /\ UNCHANGED pc
                        ELSE /\ pc' = [pc EXCEPT ![p] = "return"]
                             /\ UNCHANGED <<i, j>>
                /\ UNCHANGED error
           ELSE /\ pc' = [pc EXCEPT ![p] = "raised"]
                /\ error' = [error EXCEPT ![p] = "IndexError in loop"]
                /\ UNCHANGED <<dp_array, i, j>>
    /\ UNCHANGED <<values, weights, max_weight, v, w, rows, cols, result>>

(***************************************************************************)
(* _knapsack, line 29: return dp_array[rows - 1][cols - 1].  With cols = 0 *)
(* the index -1 on an empty axis raises IndexError.                        *)
(***************************************************************************)
Return(p) ==
    /\ pc[p] = "return"
    /\ LET t == dp_array[Frame(p)]
       IN  IF cols[p] >= 1 /\ InTable(t, rows[p] - 1, cols[p] - 1)
           THEN /\ result' = [result EXCEPT ![p] = t[rows[p] - 1][cols[p] - 1]]
                /\ pc' = [pc EXCEPT ![p] = "done"]
                /\ UNCHANGED error
           ELSE /\ pc' = [pc EXCEPT ![p] = "raised"]
                /\ error' = [error EXCEPT ![p] = "IndexError at return"]
                /\ UNCHANGED result
    /\ UNCHANGED <<values, weights, max_weight, v, w, rows, cols, dp_array, i, j>>

Next ==
    \/ Marshal(1)
    \/ Alloc(1)
    \/ LoopBody(1)
    \/ Return(1)

Spec == Init /\ [][Next]_vars

(***************************************************************************)
(* Two callers on the same lists: each calls knapsack() with a capacity of *)
(* its own, the steps of the two calls interleave, and a caller whose call *)
(* has ended may call again with another capacity.                         *)
(***************************************************************************)
ParValueSet == {1, 2}
ParWeightSet == 0 .. MaxWeight
ParCapacitySet == 0 .. MaxCapacity

InitPar ==
    /\ \E vals \in SeqsUpTo(ParValueSet, MaxItems),
          wts \in SeqsUpTo(ParWeightSet, MaxItems) :
         /\ values = [p \in Procs |-> vals]
         /\ weights = [p \in Procs |-> wts]
    /\ max_weight \in [Procs -> ParCapacitySet]
    /\ v = NoSeq /\ w = NoSeq
    /\ rows = Idle /\ cols = Idle /\ i = Idle /\ j = Idle
    /\ dp_array = NoTable
    /\ pc = [p \in Procs |-> "call"]
    /\ result = Idle
    /\ error = [p \in Procs |-> "none"]

\* The caller of an ended call calls knapsack() again; the locals of the
\* ended invocation are gone.
Call(p) ==
    /\ pc[p] \in {"done", "raised"}
    /\ \E cap \in ParCapacitySet : max_weight' = [max_weight EXCEPT ![p] = cap]
    /\ pc' = [pc EXCEPT ![p] = "call"]
    /\ v' = [v EXCEPT ![p] = <<>>]
    /\ w' = [w EXCEPT ![p] = <<>>]
    /\ rows' = [rows EXCEPT ![p] = 0]
    /\ cols' = [cols EXCEPT ![p] = 0]
    /\ i' = [i EXCEPT ![p] = 0]
    /\ j' = [j EXCEPT ![p] = 0]
    /\ dp_array' = [dp_array EXCEPT ![Frame(p)] = ZeroTable(0, 0)]
    /\ result' = [result EXCEPT ![p] = 0]
    /\ error' = [error EXCEPT ![p] = "none"]
    /\ UNCHANGED <<values, weights>>

NextPar ==
    \/ \E p \in Procs : Marshal(p)
    \/ \E p \in Procs : Alloc(p)
    \/ \E p \in Procs : LoopBody(p)
    \/ \E p \in Procs : Return(p)
    \/ \E p \in Procs : Call(p)

SpecPar == InitPar /\ [][NextPar]_vars

(***************************************************************************)
(* The reference the claims compare against: brute-force enumeration.      *)
(***************************************************************************)
RECURSIVE SumOver(_, _)
SumOver(f, S) ==
    IF S = {} THEN 0
    ELSE LET k == CHOOSE x \in S : TRUE IN f[k] + SumOver(f, S \ {k})

SetMax(S) == CHOOSE x \in S : \A y \in S : y <= x

\* max of the summed values over the subsets of the first n items whose
\* summed weight is <= cap (the empty subset included).
BruteForce(vals, wts, n, cap) ==
    SetMax({SumOver(vals, S) : S \in {T \in SUBSET (1 .. n) : SumOver(wts, T) <= cap}})

Valid(p) == ValidInput(values[p], weights[p], max_weight[p])
ItemCount(p) == Len(weights[p])
Table(p) == dp_array[p]

Ended(p) == pc[p] \in {"done", "raised"}

(***************************************************************************)
(* C1: for every valid input, knapsack returns the maximum of the summed   *)
(* values over all subsets of items whose summed weight is <= capacity     *)
(* (brute-force subset enumeration).                                       *)
(***************************************************************************)
C1_EqualsBruteForce ==
    Valid(1) =>
        /\ pc[1] # "raised"
        /\ pc[1] = "done" =>
             result[1] = BruteForce(values[1], weights[1], ItemCount(1), max_weight[1])

C3_EmptyItemsReturnZero ==
    (values[1] = <<>> /\ weights[1] = <<>> /\ max_weight[1] >= 0) =>
        /\ pc[1] \notin {"loop", "raised"}
        /\ pc[1] = "done" =>
             /\ result[1] = 0
             /\ result[1] = Table(1)[0][max_weight[1]]

C3_Witness ==
    /\ pc[1] = "done"
    /\ values[1] = <<>> /\ weights[1] = <<>>
    /\ max_weight[1] = MaxCapacity

(***************************************************************************)
(* C4: for fixed valid values and weights and capacities c1 <= c2, the     *)
(* result of the call with c1 is <= the result of the call with c2.        *)
(***************************************************************************)
C4_MonotoneInCapacity ==
    \A p, q \in Procs :
        ( /\ Valid(p) /\ Valid(q)
          /\ values[p] = values[q] /\ weights[p] = weights[q]
          /\ max_weight[p] <= max_weight[q]
          /\ Ended(p) /\ Ended(q) ) =>
            /\ pc[p] = "done" /\ pc[q] = "done"
            /\ result[p] <= result[q]

C4_Witness ==
    /\ pc[1] = "done" /\ pc[2] = "done"
    /\ Valid(1) /\ Valid(2)
    /\ values[1] = values[2] /\ weights[1] = weights[2]
    /\ max_weight[1] < max_weight[2]
    /\ 0 < result[1] /\ result[1] < result[2]

(***************************************************************************)
(* C5: whenever len(values) # len(weights), knapsack fails before any DP   *)
(* computation is attempted and never returns a numeric result.            *)
(***************************************************************************)
C5_LengthMismatchRejected ==
    (Len(values[1]) # Len(weights[1])) =>
        /\ pc[1] # "done"
        /\ pc[1] = "raised" => error[1] # "IndexError in loop"

(***************************************************************************)
(* C6: whenever a weight is negative or the capacity is negative, knapsack *)
(* fails during marshaling, without filling the DP table, and never        *)
(* returns a numeric result.                                               *)
(***************************************************************************)
C6_NegativeRejected ==
    ((\E k \in 1 .. Len(weights[1]) : weights[1][k] < 0) \/ max_weight[1] < 0) =>
        /\ pc[1] # "done"
        /\ pc[1] = "raised" => error[1] # "IndexError in loop"

(***************************************************************************)
(* C7: two calls with the same values, weights and capacity end the same   *)
(* way with the same result, whatever other calls ran before them or are   *)
(* interleaved with them.                                                  *)
(***************************************************************************)
C7_Deterministic ==
    \A p, q \in Procs :
        ( /\ values[p] = values[q] /\ weights[p] = weights[q]
          /\ max_weight[p] = max_weight[q]
          /\ Ended(p) /\ Ended(q) ) =>
            /\ pc[p] = pc[q]
            /\ error[p] = error[q]
            /\ result[p] = result[q]

C7_Witness ==
    /\ pc[1] = "done" /\ pc[2] = "done"
    /\ values[1] = values[2] /\ weights[1] = weights[2]
    /\ max_weight[1] = max_weight[2]
    /\ Len(weights[1]) = MaxItems /\ Len(values[1]) = MaxItems
    /\ result[1] > 2 /\ result[2] > 2

(***************************************************************************)
(* C8: when the loops finish, for every row a in 0..itemCount and column b *)
(* in 0..capacity, table[a][b] is the maximum total value of a subset of   *)
(* the first a items with total weight <= b, and the value returned is     *)
(* table[itemCount][capacity].                                             *)
(***************************************************************************)
C8_TableMeaning ==
    (Valid(1) /\ pc[1] \in {"return", "done"}) =>
        /\ \A a \in 0 .. ItemCount(1), b \in 0 .. max_weight[1] :
             Table(1)[a][b] = BruteForce(values[1], weights[1], a, b)
        /\ pc[1] = "done" => result[1] = Table(1)[ItemCount(1)][max_weight[1]]

(***************************************************************************)
(* C9: in the completed table, for valid inputs, every row is              *)
(* non-decreasing in the column and every column is non-decreasing in the  *)
(* row.                                                                    *)
(***************************************************************************)
C9_TableMonotone ==
    (Valid(1) /\ pc[1] \in {"return", "done"}) =>
        /\ \A a \in 0 .. ItemCount(1), b \in 0 .. max_weight[1] - 1 :
             Table(1)[a][b] <= Table(1)[a][b + 1]
        /\ \A a \in 0 .. ItemCount(1) - 1, b \in 0 .. max_weight[1] :
             Table(1)[a][b] <= Table(1)[a + 1][b]

C9_Witness ==
    /\ pc[1] = "done"
    /\ Valid(1)
    /\ ItemCount(1) = MaxItems
    /\ \E a \in 1 .. ItemCount(1), b \in 1 .. max_weight[1] - 1 :
         /\ Table(1)[a][b] < Table(1)[a][b + 1]
         /\ Table(1)[a - 1][b + 1] < Table(1)[a][b + 1]
    /\ \E k \in 1 .. ItemCount(1) : values[1][k] < 0

(***************************************************************************)
(* C10: a call either fails before the first iteration of the DP loop or   *)
(* runs the loop to completion and returns table[itemCount][capacity]; no  *)
(* failure occurs once the loop has started and no value is returned for   *)
(* an input that violates the preconditions.                               *)
(***************************************************************************)
C10_NoMidLoopFailure ==
    /\ pc[1] = "raised" => error[1] # "IndexError in loop"
    /\ pc[1] = "done" =>
         /\ Valid(1)
         /\ result[1] = Table(1)[ItemCount(1)][max_weight[1]]

====
